---------------------------- MODULE Spec2Model ----------------------------
(***************************************************************************)
(* A model of httpServe.c: the request parser (get_request_path), the      *)
(* dispatcher (handle_client), the static file server (serve_file) and the *)
(* script executor (serve_php) with its child process and pipe.            *)
(*                                                                         *)
(* C strings are sequences of one-character strings.  A char array is a    *)
(* sequence whose element i+1 is the C element i; NUL is the terminator.   *)
(***************************************************************************)
EXTENDS Integers, Sequences, FiniteSets, TLC

(***************************************************************************)
(* Program constants.                                                      *)
(***************************************************************************)
BUFFER_SIZE == 4096

MAX_PATH_LENGTH == 256

WWW_DIRECTORY == << ".", "/", "w", "w", "w" >>

PHP_CLI == << "/", "u", "s", "r", "/", "b", "i", "n", "/", "p", "h", "p" >>

NUL == "NUL"

(***************************************************************************)
(* Bounds of the model.                                                    *)
(***************************************************************************)
\* bytes a child process writes to its standard output
MaxOut == 2

\* bytes of a regular file
MaxFileLen == 2

\* changes other processes make to the file system while a request is handled
MaxFsChanges == 1

\* length of the enumerated request targets of the parser specification
MaxTargetLen == 3

\* calls of get_request_path made one after the other on the same buffer
MaxCalls == 3

(***************************************************************************)
(* String literals of the source.                                          *)
(***************************************************************************)
GET_ == << "G", "E", "T", " " >>

SLASH == << "/" >>

PCT20 == << "%", "2", "0" >>

INDEX_HTML == << "/", "i", "n", "d", "e", "x", ".", "h", "t", "m", "l" >>

INDEX_PHP == << "/", "i", "n", "d", "e", "x", ".", "p", "h", "p" >>

PHP == << "p", "h", "p" >>

HTTP11 == << " ", "H", "T", "T", "P", "/", "1", ".", "1", "\r", "\n" >>

(***************************************************************************)
(* libc                                                                    *)
(***************************************************************************)
Min(a, b) == IF a < b THEN a ELSE b

\* does needle occur in hay at (1-based) position i
MatchAt(hay, needle, i) ==
    /\ i + Len(needle) - 1 <= Len(hay)
    /\ \A k \in 1..Len(needle) : hay[i + k - 1] = needle[k]

\* strstr: the position of the first occurrence of needle in hay, 0 for NULL
strstr(hay, needle) ==
    LET hits == { i \in 1..Len(hay) : MatchAt(hay, needle, i) }
    IN  IF hits = {} THEN 0 ELSE CHOOSE i \in hits : \A j \in hits : i <= j

\* strrchr: the position of the last occurrence of c in s, 0 for NULL
strrchr(s, c) ==
    LET hits == { i \in 1..Len(s) : s[i] = c }
    IN  IF hits = {} THEN 0 ELSE CHOOSE i \in hits : \A j \in hits : i >= j

\* snprintf(dst, MAX_PATH_LENGTH, "%s%s", ...): the formatted text cut to
\* MAX_PATH_LENGTH - 1 characters
snprintf_path(s) == SubSeq(s, 1, Min(Len(s), MAX_PATH_LENGTH - 1))

UPPER == << "A", "B", "C", "D", "E", "F", "G", "H", "I", "J", "K", "L", "M",
            "N", "O", "P", "Q", "R", "S", "T", "U", "V", "W", "X", "Y", "Z" >>

LOWER == << "a", "b", "c", "d", "e", "f", "g", "h", "i", "j", "k", "l", "m",
            "n", "o", "p", "q", "r", "s", "t", "u", "v", "w", "x", "y", "z" >>

tolower(c) ==
    IF \E i \in 1..26 : UPPER[i] = c
    THEN LOWER[CHOOSE i \in 1..26 : UPPER[i] = c]
    ELSE c

\* strcasecmp(a, b) == 0
strcasecmp_eq(a, b) ==
    /\ Len(a) = Len(b)
    /\ \A i \in 1..Len(a) : tolower(a[i]) = tolower(b[i])

\* the C string held by a char array: the characters before the first NUL
CStr(buf) ==
    LET nuls == { i \in 1..Len(buf) : buf[i] = NUL }
    IN  IF nuls = {} THEN buf
        ELSE SubSeq(buf, 1, (CHOOSE i \in nuls : \A j \in nuls : i <= j) - 1)

\* strcpy(dst, s): s and its terminator written over the start of dst
strcpy(dst, s) ==
    s \o << NUL >> \o SubSeq(dst, Len(s) + 2, Len(dst))

\* strncpy_term without the dst[n] = '\0' that follows the strncpy
strncpy_term_noterm(dst, src, from, n) ==
    SubSeq(src, from, from + n - 1) \o SubSeq(dst, n + 1, Len(dst))

\* strncpy(dst, src + from - 1, n) followed by dst[n] = '\0'
\* (the n characters copied hold no NUL, so strncpy pads nothing)
strncpy_term(dst, src, from, n) ==
    SubSeq(src, from, from + n - 1) \o << NUL >> \o SubSeq(dst, n + 2, Len(dst))

(***************************************************************************)
(* get_file_extension, get_content_type                                    *)
(***************************************************************************)
get_file_extension(filename) ==
    LET dot == strrchr(filename, ".")
    IN  IF dot = 0 \/ dot = 1 THEN << >>
        ELSE SubSeq(filename, dot + 1, Len(filename))

get_content_type(extension) ==
    IF extension = << "h", "t", "m", "l" >> \/ extension = << "h", "t", "m" >>
    THEN "text/html"
    ELSE IF extension = << "c", "s", "s" >> THEN "text/css"
    ELSE IF extension = << "j", "s" >> THEN "application/javascript"
    ELSE IF extension = << "j", "p", "g" >> \/ extension = << "j", "p", "e", "g" >>
    THEN "image/jpeg"
    ELSE IF extension = << "p", "n", "g" >> THEN "image/png"
    ELSE IF extension = << "g", "i", "f" >> THEN "image/gif"
    ELSE IF extension = << "t", "x", "t" >> THEN "text/plain"
    ELSE IF extension = PHP THEN "text/html"
    ELSE "application/octet-stream"

(***************************************************************************)
(* get_request_path.  `path` is the function's static buffer; the result   *)
(* is the buffer after the call, and the returned string is CStr of it.    *)
(***************************************************************************)
\* url_decode_step skipping over "%20" without writing the space
url_decode_step_drop(st) ==
    IF st.done THEN st
    ELSE IF st.buf[st.src] = NUL
    THEN [st EXCEPT !.buf[st.dst] = NUL, !.done = TRUE]
    ELSE IF /\ st.buf[st.src] = "%"
            /\ st.buf[st.src + 1] = "2"
            /\ st.buf[st.src + 2] = "0"
    THEN [st EXCEPT !.src = @ + 3]
    ELSE [st EXCEPT !.buf[st.dst] = st.buf[st.src], !.src = @ + 1, !.dst = @ + 1]

\* url_decode_step advancing src by 2, not 3, over a decoded "%20"
url_decode_step_skip2(st) ==
    IF st.done THEN st
    ELSE IF st.buf[st.src] = NUL
    THEN [st EXCEPT !.buf[st.dst] = NUL, !.done = TRUE]
    ELSE IF /\ st.buf[st.src] = "%"
            /\ st.buf[st.src + 1] = "2"
            /\ st.buf[st.src + 2] = "0"
    THEN [st EXCEPT !.buf[st.dst] = " ", !.src = @ + 2, !.dst = @ + 1]
    ELSE [st EXCEPT !.buf[st.dst] = st.buf[st.src], !.src = @ + 1, !.dst = @ + 1]

\* One evaluation of the decoding loop's condition and body: src and dst are
\* the two pointers (1-based); done is set when *src is the terminator and
\* the final *dst = '\\0' has been written.
url_decode_step(st) ==
    IF st.done THEN st
    ELSE IF st.buf[st.src] = NUL
    THEN [st EXCEPT !.buf[st.dst] = NUL, !.done = TRUE]
    ELSE IF /\ st.buf[st.src] = "%"
            /\ st.buf[st.src + 1] = "2"
            /\ st.buf[st.src + 2] = "0"
    THEN [st EXCEPT !.buf[st.dst] = " ", !.src = @ + 3, !.dst = @ + 1]
    ELSE [st EXCEPT !.buf[st.dst] = st.buf[st.src], !.src = @ + 1, !.dst = @ + 1]

\* n evaluations of the loop, one after the other (the state after the
\* first half of them is bound as a value, so that it is computed once)
RECURSIVE url_decode_run(_, _)
url_decode_run(st, n) ==
    IF n = 0 THEN st
    ELSE IF n = 1 THEN url_decode_step(st)
    ELSE CHOOSE r \in { IF half.done THEN half
                        ELSE url_decode_run(half, n - (n \div 2)) :
                        half \in { url_decode_run(st, n \div 2) } } : TRUE

\* the whole loop: it ends within MAX_PATH_LENGTH evaluations, the
\* terminator being among the buffer's MAX_PATH_LENGTH elements
url_decode(buf) ==
    CHOOSE r \in { url_decode_run([buf |-> b, src |-> 1, dst |-> 1,
                                   done |-> FALSE], MAX_PATH_LENGTH).buf :
                   b \in { buf } } : TRUE

\* the part of the function after "GET " was found: path_start is the
\* position after it, sp the position of the next space in the rest
get_path_after(request, path, path_start) ==
    CHOOSE r \in
        { IF sp = 0 THEN strcpy(path, SLASH)
          ELSE LET path_length ==
                       IF sp - 1 >= MAX_PATH_LENGTH
                       THEN MAX_PATH_LENGTH - 1 ELSE sp - 1
               IN  url_decode(
                       strncpy_term(path, request, path_start, path_length)) :
          sp \in { strstr(rest, << " " >>) :
                   rest \in { SubSeq(request, path_start, Len(request)) } } } : TRUE

\* (the intermediate values are bound as values, x \in { e }, so that each
\* is computed once)
get_request_path(request, path) ==
    CHOOSE r \in
        { IF get_pos = 0 THEN strcpy(path, SLASH)
          ELSE get_path_after(request, path, get_pos + 4) :
          get_pos \in { strstr(request, GET_) } } : TRUE

(***************************************************************************)
(* The file system, as stat() and open() see it.  fs maps a path name to   *)
(* "none", "file" or "dir"; a name outside its domain does not exist.      *)
(***************************************************************************)
\* path resolution ignores repeated slashes: "./www//index.html" names
\* "./www/index.html"
RECURSIVE Canon(_)
Canon(p) ==
    CHOOSE c \in
        { IF Len(q) <= 1 THEN q
          ELSE CHOOSE lr \in
                 { IF l[Len(l)] = "/" /\ r[1] = "/" THEN l \o Tail(r) ELSE l \o r :
                   l \in { Canon(SubSeq(q, 1, Len(q) \div 2)) },
                   r \in { Canon(SubSeq(q, (Len(q) \div 2) + 1, Len(q))) } } : TRUE :
          q \in { p } } : TRUE

\* what stat(p) finds: a name with a trailing slash resolves only to a
\* directory
Lookup(f, p) ==
    CHOOSE r \in
        { LET d == IF Len(c) > 1 /\ c[Len(c)] = "/"
                   THEN SubSeq(c, 1, Len(c) - 1) ELSE c
              k == IF d \in DOMAIN f THEN f[d] ELSE "none"
          IN  IF d # c /\ k = "file" THEN "none" ELSE k :
          c \in { Canon(p) } } : TRUE

\* file_exists(path): stat(path, &buffer) == 0
file_exists(f, p) == Lookup(f, p) # "none"

(***************************************************************************)
(* The state.                                                              *)
(***************************************************************************)
VARIABLES
    pc,         \* where main / handle_client / serve_file / serve_php stands
    conns,      \* connections accepted in this behaviour
    sock,       \* the client socket: "none", "open", "closed"
    closes,     \* close(client_socket) calls made for the current connection
    sent,       \* what was written to the client socket, in order
    incoming,   \* the bytes the client sends on the current connection
    arrived,    \* have they, or the client's end of stream, reached the socket
    buffer,     \* handle_client's buffer, as a C string
    path,       \* get_request_path's static buffer
    file_path,  \* handle_client's file_path
    branch,     \* which of serve_file, serve_php, send_not_found was called
    target,     \* the file_path argument of serve_file / serve_php
    fs,         \* the file system
    fsChanges,  \* changes made by other processes during the current request
    file_fd,    \* serve_file's descriptor: "none", "open", "closed"
    inode,      \* the opened file: its kind and its current content
    file_off,   \* the read offset of file_fd
    fileChanged, \* has the opened file's content changed since fstat
    st_size,    \* file_stat.st_size
    pipe_fd,    \* the parent's pipe_fd[0] and pipe_fd[1]: "none", "open", "closed"
    pipe_buf,   \* the bytes in the pipe
    child,      \* the forked process
    childOut,   \* every byte the child wrote to its standard output
    calls       \* calls of get_request_path made by the parser specification

vars == << pc, conns, sock, closes, sent, incoming, arrived, buffer, path, file_path,
           branch, target, fs, fsChanges, file_fd, inode, file_off, fileChanged,
           st_size, pipe_fd, pipe_buf, child, childOut, calls >>

connVars == << conns, sock, closes, incoming, arrived >>

parseVars == << buffer, path, file_path, branch, target >>

fileVars == << file_fd, inode, file_off, fileChanged, st_size >>

phpVars == << pipe_fd, pipe_buf, child, childOut >>

\* the request path handle_client works on: the string in the static buffer
request_path == CStr(path)

NoChild == [state |-> "none", stdout |-> "none", exec_ok |-> FALSE, status |-> 0]

NoInode == [kind |-> "none", data |-> << >>]

NoPipe == [i \in {0, 1} |-> "none"]

ZeroPath == SubSeq([i \in 1..MAX_PATH_LENGTH |-> NUL], 1, MAX_PATH_LENGTH)

(***************************************************************************)
(* The inputs: the requests clients send and the file systems they meet.   *)
(***************************************************************************)
Pad(k) == SubSeq([i \in 1..k |-> "a"], 1, k)

X_PHP == << "/", "x", ".", "p", "h", "p" >>

X_PHP_UPPER == << "/", "x", ".", "P", "H", "P" >>

X_TXT == << "/", "x", ".", "t", "x", "t" >>

\* a directory-style target so long that "./www" + target + "/index.html"
\* is one character more than file_path's MAX_PATH_LENGTH - 1
LongDirTarget ==
    SLASH \o Pad(MAX_PATH_LENGTH - Len(WWW_DIRECTORY) - Len(INDEX_HTML) - 2)
          \o SLASH

\* a target of MAX_PATH_LENGTH - 1 characters, the longest the parser returns
LongFileTarget ==
    SLASH \o Pad(MAX_PATH_LENGTH - 2 - Len(PHP) - 1) \o << "." >> \o PHP

DispatchTargets ==
    { SLASH, X_PHP, X_PHP_UPPER, X_TXT, << >>, LongDirTarget, LongFileTarget }

POST_ == << "P", "O", "S", "T", " " >>

\* what a client may send; << >> is a client that sends nothing
DispatchRequests ==
    { GET_ \o t \o HTTP11 : t \in DispatchTargets }
        \cup { POST_ \o X_TXT \o HTTP11, << >> }

\* the name stat() resolves p to
Name(p) ==
    CHOOSE n \in
        { IF Len(c) > 1 /\ c[Len(c)] = "/" THEN SubSeq(c, 1, Len(c) - 1) ELSE c :
          c \in { Canon(p) } } : TRUE

\* the decoded path of a request, whatever the static buffer held before
PathOf(req) == CStr(get_request_path(req, ZeroPath))

\* the names whose existence decides how a request for path p is answered:
\* those the handler looks up and those <root> + p (+ index file) names
FsNames(p) ==
    LET fp == snprintf_path(WWW_DIRECTORY \o p)
    IN  IF p = << >> \/ p[Len(p)] = "/"
        THEN { Name(snprintf_path(fp \o INDEX_HTML)),
               Name(snprintf_path(fp \o INDEX_PHP)),
               Name(WWW_DIRECTORY \o p \o INDEX_HTML),
               Name(WWW_DIRECTORY \o p \o INDEX_PHP) }
             \cup (IF p = << >> THEN { Name(fp) } ELSE {})
        ELSE { Name(fp), Name(WWW_DIRECTORY \o p) }

Kinds == { "none", "file", "dir" }

\* the document root itself is a directory
FsFor(req) ==
    { f \in [FsNames(PathOf(req)) -> Kinds] :
        WWW_DIRECTORY \in DOMAIN f => f[WWW_DIRECTORY] = "dir" }

FileBytes == { "x", "y" }

OutBytes == { "h", "i" }

\* every byte string of at most n bytes over alphabet A
Strings(A, n) == UNION { [1..k -> A] : k \in 0..n }

(***************************************************************************)
(* What is written to the client socket.  One element per write():         *)
(* send_not_found and send_server_error write status line, headers and an  *)
(* error page at once; serve_file and serve_php write the status line and  *)
(* headers, then one write per chunk read.                                 *)
(***************************************************************************)
NoLength == -1

HeadWrite(code, ctype, clen) ==
    [w |-> "head", status |-> code, ctype |-> ctype, clen |-> clen]

DataWrite(bytes) == [w |-> "data", bytes |-> bytes]

send_not_found == HeadWrite(404, "text/html", NoLength)

send_server_error == HeadWrite(500, "text/html", NoLength)

serve_file_headers(file, size) ==
    HeadWrite(200, get_content_type(get_file_extension(file)), size)

serve_php_headers == HeadWrite(200, "text/html", NoLength)

(***************************************************************************)
(* main: the accept loop.  A behaviour follows the server from an accept() *)
(* through handle_client to its return; what earlier connections left      *)
(* behind, the static path buffer, is part of the initial state.           *)
(***************************************************************************)
\* What the static buffer of get_request_path may hold when a connection is
\* accepted: zeroes before the first call, or what the calls for earlier
\* connections left (a long path; a short path over the rest of a long one).
PriorPaths ==
    { ZeroPath,
      get_request_path(GET_ \o SLASH \o Pad(MAX_PATH_LENGTH) \o HTTP11, ZeroPath),
      get_request_path(POST_ \o X_TXT \o HTTP11,
          get_request_path(GET_ \o SLASH \o Pad(MAX_PATH_LENGTH) \o HTTP11, ZeroPath)) }

Init ==
    /\ pc = "accept"
    /\ conns = 0
    /\ sock = "none"
    /\ closes = 0
    /\ sent = << >>
    /\ incoming = << >>
    /\ arrived = FALSE
    /\ buffer = << >>
    /\ path \in PriorPaths
    /\ file_path = << >>
    /\ branch = "none"
    /\ target = << >>
    /\ fs = << >>
    /\ fsChanges = 0
    /\ file_fd = "none"
    /\ inode = NoInode
    /\ file_off = 0
    /\ fileChanged = FALSE
    /\ st_size = 0
    /\ pipe_fd = NoPipe
    /\ pipe_buf = << >>
    /\ child = NoChild
    /\ childOut = << >>
    /\ calls = 0

\* accept() returns a connection and main calls handle_client.  The client's
\* bytes, one of requests, and the file system of that moment are the
\* environment's choice.
AcceptFrom(requests) ==
    /\ pc = "accept"
    /\ conns = 0
    /\ \E req \in requests : \E f \in FsFor(req) :
          /\ incoming' = req
          /\ fs' = f
    /\ conns' = conns + 1
    /\ arrived' = FALSE
    /\ sock' = "open"
    /\ closes' = 0
    /\ sent' = << >>
    /\ buffer' = << >>
    /\ file_path' = << >>
    /\ branch' = "none"
    /\ target' = << >>
    /\ fsChanges' = 0
    /\ file_fd' = "none"
    /\ inode' = NoInode
    /\ file_off' = 0
    /\ fileChanged' = FALSE
    /\ st_size' = 0
    /\ pipe_fd' = NoPipe
    /\ pipe_buf' = << >>
    /\ child' = NoChild
    /\ childOut' = << >>
    /\ pc' = "handle_client"
    /\ UNCHANGED << path, calls >>

Accept == AcceptFrom(DispatchRequests)

(***************************************************************************)
(* handle_client                                                           *)
(***************************************************************************)
\* The client's bytes, or its end of stream, reach the socket.  Until then
\* read(client_socket, buffer, BUFFER_SIZE - 1) blocks: the socket is a
\* blocking one and no receive timeout is set on it.
ClientSend ==
    /\ pc = "handle_client"
    /\ ~arrived
    /\ arrived' = TRUE
    /\ UNCHANGED << pc, conns, sock, closes, incoming, sent, parseVars, fs,
                    fsChanges, fileVars, phpVars, calls >>

\* The branch handle_client takes for request path rp on file system f.
\* at_minus_1 is the byte request_path[strlen(request_path) - 1] when rp is
\* empty: the index is then (size_t)-1, the byte before the static buffer,
\* which the program never set.
Dispatch(f, rp, at_minus_1) ==
    LET fp   == snprintf_path(WWW_DIRECTORY \o rp)
        last == IF rp = << >> THEN at_minus_1 ELSE rp[Len(rp)]
        index_html_path == snprintf_path(fp \o INDEX_HTML)
        index_php_path  == snprintf_path(fp \o INDEX_PHP)
    IN  IF last = "/"
        THEN IF file_exists(f, index_html_path)
             THEN [branch |-> "serve_file", target |-> index_html_path]
             ELSE IF file_exists(f, index_php_path)
             THEN [branch |-> "serve_php", target |-> index_php_path]
             ELSE [branch |-> "send_not_found", target |-> << >>]
        ELSE IF file_exists(f, fp)
             THEN IF strcasecmp_eq(get_file_extension(fp), PHP)
                  THEN [branch |-> "serve_php", target |-> fp]
                  ELSE [branch |-> "serve_file", target |-> fp]
             ELSE [branch |-> "send_not_found", target |-> << >>]

\* HandleEmptyRead with the early return taken before close(client_socket)
HandleEmptyRead_noclose ==
    /\ pc = "handle_client"
    /\ arrived
    /\ Len(incoming) = 0
    /\ pc' = "accept"
    /\ UNCHANGED << connVars, sent, parseVars, fs, fsChanges, fileVars, phpVars,
                    calls >>

\* read() returned nothing: close and return
HandleEmptyRead ==
    /\ pc = "handle_client"
    /\ arrived
    /\ Len(incoming) = 0
    /\ sock' = "closed"
    /\ closes' = closes + 1
    /\ pc' = "accept"
    /\ UNCHANGED << conns, incoming, arrived, sent, parseVars, fs, fsChanges,
                    fileVars, phpVars, calls >>

\* HandleRequest without the test of bytes_read: an empty read is parsed
\* and answered like a request
HandleRequest_anyread ==
    /\ pc = "handle_client"
    /\ arrived
    /\ \E buf \in { SubSeq(incoming, 1, Min(Len(incoming), BUFFER_SIZE - 1)) } :
       \E pth \in { get_request_path(buf, path) } :
       \E rp \in { CStr(pth) } :
           /\ buffer' = buf
           /\ path' = pth
           /\ file_path' = snprintf_path(WWW_DIRECTORY \o rp)
           /\ \E at_minus_1 \in IF rp = << >> THEN { "/", NUL } ELSE { NUL } :
              \E d \in { Dispatch(fs, rp, at_minus_1) } :
                    /\ branch' = d.branch
                    /\ target' = d.target
                    /\ pc' = CASE d.branch = "serve_file" -> "sf_open"
                               [] d.branch = "serve_php" -> "php_pipe"
                               [] OTHER -> "not_found"
    /\ UNCHANGED << connVars, sent, fs, fsChanges, fileVars, phpVars, calls >>

\* read() returned a request: parse it, build file_path, test the last
\* character and the existence of the candidates, and call the branch
HandleRequest ==
    /\ pc = "handle_client"
    /\ arrived
    /\ Len(incoming) > 0
    /\ \E buf \in { SubSeq(incoming, 1, Min(Len(incoming), BUFFER_SIZE - 1)) } :
       \E pth \in { get_request_path(buf, path) } :
       \E rp \in { CStr(pth) } :
           /\ buffer' = buf
           /\ path' = pth
           /\ file_path' = snprintf_path(WWW_DIRECTORY \o rp)
           /\ \E at_minus_1 \in IF rp = << >> THEN { "/", NUL } ELSE { NUL } :
              \E d \in { Dispatch(fs, rp, at_minus_1) } :
                    /\ branch' = d.branch
                    /\ target' = d.target
                    /\ pc' = CASE d.branch = "serve_file" -> "sf_open"
                               [] d.branch = "serve_php" -> "php_pipe"
                               [] OTHER -> "not_found"
    /\ UNCHANGED << connVars, sent, fs, fsChanges, fileVars, phpVars, calls >>

\* send_not_found(client_socket), called from handle_client
NotFound ==
    /\ pc = "not_found"
    /\ sent' = Append(sent, send_not_found)
    /\ pc' = "close"
    /\ UNCHANGED << connVars, parseVars, fs, fsChanges, fileVars, phpVars, calls >>

\* close(client_socket) at the end of handle_client, and the return to main
Close ==
    /\ pc = "close"
    /\ sock' = "closed"
    /\ closes' = closes + 1
    /\ pc' = "accept"
    /\ UNCHANGED << conns, incoming, arrived, sent, parseVars, fs, fsChanges,
                    fileVars, phpVars, calls >>

(***************************************************************************)
(* serve_file                                                              *)
(***************************************************************************)
\* ServeFileOpen with a failed open reported as a server error
ServeFileOpen_500 ==
    /\ pc = "sf_open"
    /\ \/ /\ sent' = Append(sent, send_server_error)
          /\ pc' = "close"
          /\ UNCHANGED fileVars
       \/ /\ Lookup(fs, target) # "none"
          /\ file_fd' = "open"
          /\ \E data \in Strings(FileBytes, MaxFileLen) :
                inode' = [kind |-> Lookup(fs, target),
                          data |-> IF Lookup(fs, target) = "dir" THEN << >> ELSE data]
          /\ file_off' = 0
          /\ pc' = "sf_fstat"
          /\ UNCHANGED << sent, fileChanged, st_size >>
    /\ UNCHANGED << connVars, parseVars, fs, fsChanges, phpVars, calls >>

\* open(file_path, O_RDONLY).  It fails when the name no longer exists, and
\* may fail for other reasons (permissions, descriptor limit).  A directory
\* opens read-only like a file.  The content found is the environment's.
ServeFileOpen ==
    /\ pc = "sf_open"
    /\ \/ /\ sent' = Append(sent, send_not_found)
          /\ pc' = "close"
          /\ UNCHANGED fileVars
       \/ /\ Lookup(fs, target) # "none"
          /\ file_fd' = "open"
          /\ \E data \in Strings(FileBytes, MaxFileLen) :
                inode' = [kind |-> Lookup(fs, target),
                          data |-> IF Lookup(fs, target) = "dir" THEN << >> ELSE data]
          /\ file_off' = 0
          /\ pc' = "sf_fstat"
          /\ UNCHANGED << sent, fileChanged, st_size >>
    /\ UNCHANGED << connVars, parseVars, fs, fsChanges, phpVars, calls >>

\* the size fstat() reports: a file's length; a directory's is the file
\* system's own choice
StatSizes(ino) ==
    IF ino.kind = "dir" THEN 0..MaxFileLen ELSE { Len(ino.data) }

\* ServeFileStat with the 200 headers written before fstat's result is tested
ServeFileStat_late500 ==
    /\ pc = "sf_fstat"
    /\ \/ /\ file_fd' = "closed"
          /\ sent' = Append(Append(sent, serve_file_headers(target, st_size)),
                            send_server_error)
          /\ pc' = "close"
          /\ UNCHANGED st_size
       \/ \E size \in StatSizes(inode) :
          /\ st_size' = size
          /\ sent' = Append(sent, serve_file_headers(target, size))
          /\ pc' = "sf_read"
          /\ UNCHANGED file_fd
    /\ UNCHANGED << connVars, parseVars, fs, fsChanges, inode, file_off,
                    fileChanged, phpVars, calls >>

\* fstat(file_fd, &file_stat), then the headers
ServeFileStat ==
    /\ pc = "sf_fstat"
    /\ \/ /\ file_fd' = "closed"
          /\ sent' = Append(sent, send_server_error)
          /\ pc' = "close"
          /\ UNCHANGED st_size
       \/ \E size \in StatSizes(inode) :
          /\ st_size' = size
          /\ sent' = Append(sent, serve_file_headers(target, size))
          /\ pc' = "sf_read"
          /\ UNCHANGED file_fd
    /\ UNCHANGED << connVars, parseVars, fs, fsChanges, inode, file_off,
                    fileChanged, phpVars, calls >>

\* read_file returning one byte less than the file holds
read_file_short(ino, off) ==
    IF ino.kind = "dir" \/ off >= Len(ino.data) - 1 THEN << >>
    ELSE SubSeq(ino.data, off + 1, Min(Len(ino.data) - 1, off + BUFFER_SIZE))

\* what read(file_fd, buffer, BUFFER_SIZE) returns: the bytes from the
\* offset on, at most BUFFER_SIZE of them; nothing at end of file, and
\* nothing (-1, EISDIR) on a directory
read_file(ino, off) ==
    IF ino.kind = "dir" \/ off >= Len(ino.data) THEN << >>
    ELSE SubSeq(ino.data, off + 1, Min(Len(ino.data), off + BUFFER_SIZE))

\* one turn of the loop: read a chunk and write it, or leave the loop and
\* close(file_fd)
ServeFileRead ==
    /\ pc = "sf_read"
    /\ LET chunk == read_file(inode, file_off)
       IN  IF Len(chunk) > 0
           THEN /\ sent' = Append(sent, DataWrite(chunk))
                /\ file_off' = file_off + Len(chunk)
                /\ UNCHANGED << pc, file_fd >>
           ELSE /\ file_fd' = "closed"
                /\ pc' = "close"
                /\ UNCHANGED << sent, file_off >>
    /\ UNCHANGED << connVars, parseVars, fs, fsChanges, inode, fileChanged,
                    st_size, phpVars, calls >>

(***************************************************************************)
(* Other processes: they change the file system between the existence      *)
(* check and the open, and a file's content between fstat and the reads.   *)
(***************************************************************************)
FsChange ==
    /\ pc = "sf_open"
    /\ fsChanges < MaxFsChanges
    /\ \E n \in DOMAIN fs : \E k \in Kinds \ { fs[n] } :
          fs' = [fs EXCEPT ![n] = k]
    /\ fsChanges' = fsChanges + 1
    /\ UNCHANGED << pc, connVars, sent, parseVars, fileVars, phpVars, calls >>

FileChange ==
    /\ pc = "sf_read"
    /\ inode.kind = "file"
    /\ fsChanges < MaxFsChanges
    /\ \E data \in Strings(FileBytes, MaxFileLen) \ { inode.data } :
          inode' = [inode EXCEPT !.data = data]
    /\ fileChanged' = TRUE
    /\ fsChanges' = fsChanges + 1
    /\ UNCHANGED << pc, connVars, sent, parseVars, fs, file_fd, file_off, st_size,
                    phpVars, calls >>

(***************************************************************************)
(* serve_php: the parent                                                   *)
(***************************************************************************)
\* pipe(pipe_fd)
PhpPipe ==
    /\ pc = "php_pipe"
    /\ \/ /\ sent' = Append(sent, send_server_error)
          /\ pc' = "close"
          /\ UNCHANGED pipe_fd
       \/ /\ pipe_fd' = [i \in {0, 1} |-> "open"]
          /\ pc' = "php_fork"
          /\ UNCHANGED sent
    /\ UNCHANGED << connVars, parseVars, fs, fsChanges, fileVars, pipe_buf, child,
                    childOut, calls >>

\* PhpFork with the failure branch returning without closing the pipe
PhpFork_leak ==
    /\ pc = "php_fork"
    /\ \/ /\ sent' = Append(sent, send_server_error)
          /\ pc' = "close"
          /\ UNCHANGED << child, pipe_fd >>
       \/ /\ child' = [state |-> "forked", stdout |-> "none", exec_ok |-> FALSE,
                       status |-> 0]
          /\ pc' = "php_close_w"
          /\ UNCHANGED << sent, pipe_fd >>
    /\ UNCHANGED << connVars, parseVars, fs, fsChanges, fileVars, pipe_buf,
                    childOut, calls >>

\* fork(): on failure both ends are closed and a 500 is sent; on success the
\* child starts with its own copies of both ends
PhpFork ==
    /\ pc = "php_fork"
    /\ \/ /\ pipe_fd' = [i \in {0, 1} |-> "closed"]
          /\ sent' = Append(sent, send_server_error)
          /\ pc' = "close"
          /\ UNCHANGED child
       \/ /\ child' = [state |-> "forked", stdout |-> "none", exec_ok |-> FALSE,
                       status |-> 0]
          /\ pc' = "php_close_w"
          /\ UNCHANGED << sent, pipe_fd >>
    /\ UNCHANGED << connVars, parseVars, fs, fsChanges, fileVars, pipe_buf,
                    childOut, calls >>

\* PhpCloseWrite with the close left out: the parent keeps the write end
PhpCloseWrite_keep ==
    /\ pc = "php_close_w"
    /\ pc' = "php_headers"
    /\ UNCHANGED << connVars, sent, parseVars, fs, fsChanges, fileVars, phpVars,
                    calls >>

\* close(pipe_fd[1])
PhpCloseWrite ==
    /\ pc = "php_close_w"
    /\ pipe_fd' = [pipe_fd EXCEPT ![1] = "closed"]
    /\ pc' = "php_headers"
    /\ UNCHANGED << connVars, sent, parseVars, fs, fsChanges, fileVars, pipe_buf,
                    child, childOut, calls >>

\* PhpHeaders with the headers left out: the relay loop starts without them
PhpHeaders_skip ==
    /\ pc = "php_headers"
    /\ pc' = "php_read"
    /\ UNCHANGED << connVars, sent, parseVars, fs, fsChanges, fileVars, phpVars,
                    calls >>

\* write(client_socket, headers, strlen(headers))
PhpHeaders ==
    /\ pc = "php_headers"
    /\ sent' = Append(sent, serve_php_headers)
    /\ pc' = "php_read"
    /\ UNCHANGED << connVars, parseVars, fs, fsChanges, fileVars, phpVars, calls >>

\* is some write end of the pipe open: the parent's, or the child's (its
\* copy of pipe_fd[1] until it runs, its standard output afterwards)
WriterOpen ==
    \/ pipe_fd[1] = "open"
    \/ child.state = "forked"
    \/ child.stdout = "open"

\* PhpRead on a non-blocking pipe: an empty pipe ends the loop even while
\* the child still holds the write end
PhpRead_nonblocking ==
    /\ pc = "php_read"
    /\ IF Len(pipe_buf) > 0
       THEN LET n == Min(Len(pipe_buf), BUFFER_SIZE)
            IN  /\ sent' = Append(sent, DataWrite(SubSeq(pipe_buf, 1, n)))
                /\ pipe_buf' = SubSeq(pipe_buf, n + 1, Len(pipe_buf))
                /\ UNCHANGED pc
       ELSE /\ pc' = "php_close_r"
            /\ UNCHANGED << sent, pipe_buf >>
    /\ UNCHANGED << connVars, parseVars, fs, fsChanges, fileVars, pipe_fd, child,
                    childOut, calls >>

\* one turn of the loop: read(pipe_fd[0], buffer, BUFFER_SIZE) blocks until
\* the pipe holds bytes or has no writer; a chunk is written to the client,
\* end of stream leaves the loop
PhpRead ==
    /\ pc = "php_read"
    /\ IF Len(pipe_buf) > 0
       THEN LET n == Min(Len(pipe_buf), BUFFER_SIZE)
            IN  /\ sent' = Append(sent, DataWrite(SubSeq(pipe_buf, 1, n)))
                /\ pipe_buf' = SubSeq(pipe_buf, n + 1, Len(pipe_buf))
                /\ UNCHANGED pc
       ELSE /\ ~WriterOpen
            /\ pc' = "php_close_r"
            /\ UNCHANGED << sent, pipe_buf >>
    /\ UNCHANGED << connVars, parseVars, fs, fsChanges, fileVars, pipe_fd, child,
                    childOut, calls >>

\* close(pipe_fd[0])
PhpCloseRead ==
    /\ pc = "php_close_r"
    /\ pipe_fd' = [pipe_fd EXCEPT ![0] = "closed"]
    /\ pc' = "php_wait"
    /\ UNCHANGED << connVars, sent, parseVars, fs, fsChanges, fileVars, pipe_buf,
                    child, childOut, calls >>

\* PhpWait with WNOHANG: waitpid returns at once and reaps the child only
\* if it has exited already
PhpWait_nohang ==
    /\ pc = "php_wait"
    /\ child' = IF child.state = "exited"
                THEN [child EXCEPT !.state = "reaped"] ELSE child
    /\ pc' = "close"
    /\ UNCHANGED << connVars, sent, parseVars, fs, fsChanges, fileVars, pipe_fd,
                    pipe_buf, childOut, calls >>

\* waitpid(pid, &status, 0) returns once the child has exited, and reaps it
PhpWait ==
    /\ pc = "php_wait"
    /\ child.state = "exited"
    /\ child' = [child EXCEPT !.state = "reaped"]
    /\ pc' = "close"
    /\ UNCHANGED << connVars, sent, parseVars, fs, fsChanges, fileVars, pipe_fd,
                    pipe_buf, childOut, calls >>

(***************************************************************************)
(* serve_php: the child                                                    *)
(***************************************************************************)
\* close(pipe_fd[0]); dup2(pipe_fd[1], STDOUT_FILENO); close(pipe_fd[1]);
\* execl(PHP_CLI, ...).  When execl fails the child goes on to
\* exit(EXIT_FAILURE); until it exits, its standard output is the pipe.
ChildExec ==
    /\ child.state = "forked"
    /\ \E ok \in BOOLEAN :
          child' = [child EXCEPT !.state = "running", !.stdout = "open",
                                 !.exec_ok = ok]
    /\ UNCHANGED << pc, connVars, sent, parseVars, fs, fsChanges, fileVars,
                    pipe_fd, pipe_buf, childOut, calls >>

\* a byte reaches the child's standard output: written by the interpreter,
\* or, after a failed execl, flushed by exit() from the stdio buffer the
\* child inherited (the parent's printf output not yet flushed at fork)
ChildWrite ==
    /\ child.state = "running"
    /\ child.stdout = "open"
    /\ Len(childOut) < MaxOut
    /\ \E b \in OutBytes :
          /\ pipe_buf' = Append(pipe_buf, b)
          /\ childOut' = Append(childOut, b)
    /\ UNCHANGED << pc, connVars, sent, parseVars, fs, fsChanges, fileVars,
                    pipe_fd, child, calls >>

\* the interpreter closes its standard output before it exits
ChildCloseStdout ==
    /\ child.state = "running"
    /\ child.exec_ok
    /\ child.stdout = "open"
    /\ child' = [child EXCEPT !.stdout = "closed"]
    /\ UNCHANGED << pc, connVars, sent, parseVars, fs, fsChanges, fileVars,
                    pipe_fd, pipe_buf, childOut, calls >>

\* the child exits: with EXIT_FAILURE after a failed execl, with the
\* interpreter's status otherwise; its descriptors are closed
ChildExit ==
    /\ child.state = "running"
    /\ \E st \in IF child.exec_ok THEN { 0, 1 } ELSE { 1 } :
          child' = [child EXCEPT !.state = "exited", !.stdout = "closed",
                                 !.status = st]
    /\ UNCHANGED << pc, connVars, sent, parseVars, fs, fsChanges, fileVars,
                    pipe_fd, pipe_buf, childOut, calls >>

Next ==
    \/ Accept
    \/ ClientSend
    \/ HandleEmptyRead
    \/ HandleRequest
    \/ NotFound
    \/ Close
    \/ ServeFileOpen
    \/ ServeFileStat
    \/ ServeFileRead
    \/ FsChange
    \/ FileChange
    \/ PhpPipe
    \/ PhpFork
    \/ PhpCloseWrite
    \/ PhpHeaders
    \/ PhpRead
    \/ PhpCloseRead
    \/ PhpWait
    \/ ChildExec
    \/ ChildWrite
    \/ ChildCloseStdout
    \/ ChildExit

Spec == Init /\ [][Next]_vars

(***************************************************************************)
(* Scheduling.  The server process runs: a step of handle_client that can  *)
(* be taken is taken.  A forked child runs too, and it exits: the          *)
(* interpreter by ending, the child of a failed execl through              *)
(* exit(EXIT_FAILURE).  Nothing makes the client send, and nothing makes   *)
(* other processes touch the file system.                                  *)
(***************************************************************************)
\* the steps of handle_client and of the functions it calls
HandlerStep ==
    \/ HandleEmptyRead
    \/ HandleRequest
    \/ NotFound
    \/ Close
    \/ ServeFileOpen
    \/ ServeFileStat
    \/ ServeFileRead
    \/ PhpPipe
    \/ PhpFork
    \/ PhpCloseWrite
    \/ PhpHeaders
    \/ PhpRead
    \/ PhpCloseRead
    \/ PhpWait

\* the child gets to execl and, in the end, exits
ChildRuns == ChildExec \/ ChildExit

\* the requests that take handle_client through each of its branches
LiveRequests ==
    { GET_ \o t \o HTTP11 : t \in { SLASH, X_PHP, X_TXT } } \cup { << >> }

AcceptLive == AcceptFrom(LiveRequests)

NextLive ==
    \/ AcceptLive
    \/ ClientSend
    \/ HandlerStep
    \/ FsChange
    \/ FileChange
    \/ ChildExec
    \/ ChildWrite
    \/ ChildCloseStdout
    \/ ChildExit

SpecLive ==
    /\ Init
    /\ [][NextLive]_vars
    /\ WF_vars(HandlerStep)
    /\ WF_vars(ChildRuns)

(***************************************************************************)
(* The parser on its own: get_request_path applied to one request buffer,  *)
(* its static buffer holding what an earlier call left there (Init).       *)
(***************************************************************************)
TargetBytes == { "/", "%", "2", "0", "a" }

\* targets with overlapping percent sequences, and targets at and over the
\* limit of the path buffer
SpecialTargets ==
    { << "%", "%", "2", "0", "2", "0" >>,
      << "%", "2", "%", "2", "0", "0" >>,
      << "/", "a", "%", "2", "0", "b", "%", "4", "1" >>,
      SLASH \o Pad(MAX_PATH_LENGTH - 5) \o PCT20,
      SLASH \o Pad(MAX_PATH_LENGTH - 4) \o PCT20,
      SLASH \o Pad(MAX_PATH_LENGTH) }

ParserTargets == Strings(TargetBytes, MaxTargetLen) \cup SpecialTargets

CRLF == << "\r", "\n" >>

\* a later header line that holds the text "GET "
LaterGetLine ==
    << "X", ":", " " >> \o GET_ \o << "/", "s", " ", "z" >> \o CRLF

HostLine == << "H", "o", "s", "t", ":", " ", "h" >> \o CRLF

ParserRequests ==
    UNION { { GET_ \o t \o HTTP11,
              GET_ \o t \o HTTP11 \o HostLine,
              GET_ \o t,
              GET_ \o t \o CRLF \o HostLine,
              POST_ \o t \o HTTP11,
              POST_ \o t \o HTTP11 \o LaterGetLine } : t \in ParserTargets }

\* request_path = get_request_path(buffer)
ParserCall ==
    /\ calls = 0
    /\ \E req \in ParserRequests :
          /\ buffer' = req
          /\ path' = get_request_path(req, path)
    /\ calls' = 1
    /\ UNCHANGED << pc, connVars, sent, file_path, branch, target, fs, fsChanges,
                    fileVars, phpVars >>

NextParser == ParserCall

SpecParser == Init /\ [][NextParser]_vars

(***************************************************************************)
(* The parser called again and again, as for one connection after the      *)
(* other: each call finds in the static buffer what the call before left.  *)
(***************************************************************************)
\* requests whose paths differ in length, so that a later, shorter path is
\* written over the start of an earlier, longer one
SeqRequests ==
    { GET_ \o SLASH \o Pad(MAX_PATH_LENGTH) \o HTTP11,
      GET_ \o LongDirTarget \o HTTP11,
      GET_ \o X_TXT \o HTTP11,
      GET_ \o << "/", "a", "%", "2", "0", "b", "%", "2", "0", "c" >> \o HTTP11,
      GET_ \o << "b" >> \o HTTP11,
      GET_ \o HTTP11,
      GET_ \o X_PHP,
      POST_ \o X_TXT \o HTTP11 }

ParserCallAgain ==
    /\ calls < MaxCalls
    /\ \E req \in SeqRequests :
          /\ buffer' = req
          /\ path' = get_request_path(req, path)
    /\ calls' = calls + 1
    /\ UNCHANGED << pc, connVars, sent, file_path, branch, target, fs, fsChanges,
                    fileVars, phpVars >>

NextCalls == ParserCallAgain

SpecCalls == Init /\ [][NextCalls]_vars

(***************************************************************************)
(* Properties.                                                             *)
(***************************************************************************)
\* handle_client has returned to the accept loop
Returned == pc = "accept" /\ conns > 0

\* the bytes of the data writes of a socket trace, in order
RECURSIVE Body(_)
Body(ws) ==
    IF ws = << >> THEN << >>
    ELSE IF ws[1].w = "data" THEN ws[1].bytes \o Body(Tail(ws))
    ELSE Body(Tail(ws))

\* the status lines written, in order
StatusLines(ws) == SelectSeq(ws, LAMBDA x : x.w = "head")

\* C1: every run of handle_client closes the client socket exactly once
\* before it returns: while the handler runs the socket is open and no close
\* was made, and when it has returned the socket is closed by exactly one
\* close, whichever branch ran.
C1_ClosedExactlyOnce ==
    /\ pc # "accept" => sock = "open" /\ closes = 0
    /\ Returned => sock = "closed" /\ closes = 1

\* a script response that failed partway (execl failed) has returned
C1_Witness ==
    /\ Returned
    /\ branch = "serve_php"
    /\ child.state = "reaped"
    /\ ~child.exec_ok
    /\ closes = 1

\* C2: on a connection on which a request was read exactly one status line
\* (200, 404 or 500) is written, as the first write to the socket; no
\* second one follows, whatever fails.
C2_OneStatusLine ==
    /\ \A i \in 1..Len(sent) : (sent[i].w = "head") <=> (i = 1)
    /\ sent # << >> => sent[1].status \in { 200, 404, 500 }
    /\ Returned /\ Len(incoming) > 0 => Len(StatusLines(sent)) = 1

\* a static response whose fstat failed after the open succeeded
C2_Witness ==
    /\ Returned
    /\ branch = "serve_file"
    /\ file_fd = "closed"
    /\ sent = << send_server_error >>

\* C3 (as claimed): when the request resolves to a script and execl fails,
\* the status line sent is 500 Internal Server Error.
C3_ExecFailureIs500 ==
    /\ Returned
    /\ branch = "serve_php"
    /\ child.state = "reaped"
    /\ ~child.exec_ok
    => sent[1].status = 500

\* pipe() failed in serve_php
PipeFailed ==
    /\ branch = "serve_php"
    /\ pc \in { "close", "accept" }
    /\ pipe_fd[0] = "none"

\* fork() failed in serve_php
ForkFailed ==
    /\ branch = "serve_php"
    /\ pc \in { "close", "accept" }
    /\ pipe_fd[0] # "none"
    /\ child.state = "none"

\* C4: a failure of pipe() or of fork() in serve_php produces a 500 and
\* nothing else: no 200 headers and no relayed byte are written, no child
\* exists to wait for, and after a failed fork both pipe ends are closed.
C4_PipeForkFailure ==
    /\ PipeFailed \/ ForkFailed =>
          /\ sent = << send_server_error >>
          /\ child = NoChild
          /\ childOut = << >>
    /\ ForkFailed => pipe_fd[0] = "closed" /\ pipe_fd[1] = "closed"

\* serve_php has returned after a failed fork
C4_Witness == ForkFailed /\ Returned /\ pipe_fd[1] = "closed"

\* serve_file has finished a 200 response
StaticDone ==
    /\ branch = "serve_file"
    /\ pc \in { "close", "accept" }
    /\ sent # << >>
    /\ sent[1].status = 200

\* C5 (as claimed): whenever serve_file sends a 200 response, Content-Length
\* equals the size fstat observed and exactly that many body bytes follow,
\* also for a directory and for a file that changes during the reads.
C5_LengthAndBody ==
    StaticDone =>
        /\ sent[1].clen = st_size
        /\ Len(Body(sent)) = st_size

\* C5 (amended): Content-Length always equals the size fstat observed.  The
\* body is the file's content, that many bytes, when the path names a
\* regular file whose content does not change between fstat and the last
\* read; for a directory no body byte is written.
C5_LengthAndBodyAmended ==
    StaticDone =>
        /\ sent[1].clen = st_size
        /\ inode.kind = "file" /\ ~fileChanged =>
              Body(sent) = inode.data /\ Len(Body(sent)) = st_size
        /\ inode.kind = "dir" => Body(sent) = << >>

\* a regular file of two bytes was served unchanged
C5_Witness ==
    /\ StaticDone
    /\ inode.kind = "file"
    /\ ~fileChanged
    /\ st_size = 2
    /\ Body(sent) = inode.data

\* C6: the body of a script response is the child's standard output, byte
\* for byte: at every moment the bytes relayed plus those still in the pipe
\* are what the child has written, and once the relay loop has ended the
\* bytes relayed are all of it.
C6_BodyIsChildOutput ==
    /\ branch = "serve_php" => Body(sent) \o pipe_buf = childOut
    /\ branch = "serve_php" /\ pc \in { "php_close_r", "php_wait", "close", "accept" }
          /\ child.state # "none" => Body(sent) = childOut

\* two bytes were relayed in two chunks
C6_Witness ==
    /\ Returned
    /\ branch = "serve_php"
    /\ Len(childOut) = 2
    /\ Len(sent) = 3
    /\ Body(sent) = childOut

\* handle_client has just chosen its branch, on the file system as it was
\* when the existence checks ran
JustDispatched ==
    /\ pc \in { "sf_open", "php_pipe", "not_found" }
    /\ fsChanges = 0

\* <root><path>index.html and <root><path>index.php of a path ending in '/'
IndexHtmlOf(rp) == WWW_DIRECTORY \o rp \o Tail(INDEX_HTML)

IndexPhpOf(rp) == WWW_DIRECTORY \o rp \o Tail(INDEX_PHP)

\* C7 (as claimed): for every request path ending in '/', index.html under
\* that directory is served as a static file if it exists; otherwise
\* index.php is executed if it exists; otherwise the response is 404.
C7_IndexFallback ==
    JustDispatched /\ request_path # << >>
                   /\ request_path[Len(request_path)] = "/" =>
        IF file_exists(fs, IndexHtmlOf(request_path))
        THEN /\ branch = "serve_file"
             /\ Name(target) = Name(IndexHtmlOf(request_path))
        ELSE IF file_exists(fs, IndexPhpOf(request_path))
        THEN /\ branch = "serve_php"
             /\ Name(target) = Name(IndexPhpOf(request_path))
        ELSE branch = "send_not_found"

\* C8 (as claimed): for every request path not ending in '/', a missing
\* <root><path> gives 404, an existing one whose extension is "php" in any
\* letter case goes to serve_php, and every other existing one to
\* serve_file.
C8_DirectFile ==
    JustDispatched /\ (request_path = << >>
                       \/ request_path[Len(request_path)] # "/") =>
        LET full == WWW_DIRECTORY \o request_path
        IN  IF ~file_exists(fs, full) THEN branch = "send_not_found"
            ELSE IF strcasecmp_eq(get_file_extension(full), PHP)
            THEN branch = "serve_php" /\ Name(target) = Name(full)
            ELSE branch = "serve_file" /\ Name(target) = Name(full)

\* the first line of a request buffer, without its line end
FirstLine(buf) ==
    LET e == strstr(buf, CRLF)
    IN  IF e = 0 THEN buf ELSE SubSeq(buf, 1, e - 1)

\* a GET request line: "GET ", a target, a space, the rest
IsGetRequestLine(line) ==
    /\ MatchAt(line, GET_, 1)
    /\ strstr(SubSeq(line, Len(GET_) + 1, Len(line)), << " " >>) # 0

\* C9 (as claimed): for every buffer whose first line is not a GET request
\* line, get_request_path returns "/", whatever the rest of the buffer holds.
C9_NonGetIsRoot ==
    calls = 1 /\ ~IsGetRequestLine(FirstLine(buffer)) => request_path = SLASH

\* the first line of buf is "GET <p> HTTP/1.1" with p free of spaces and
\* shorter than the path buffer
IsGetForm(buf) ==
    LET line == FirstLine(buf) \o CRLF
        p    == SubSeq(line, Len(GET_) + 1, Len(line) - Len(HTTP11))
    IN  /\ strstr(buf, CRLF) # 0
        /\ Len(line) >= Len(GET_) + Len(HTTP11)
        /\ MatchAt(line, GET_, 1)
        /\ MatchAt(line, HTTP11, Len(line) - Len(HTTP11) + 1)
        /\ \A i \in 1..Len(p) : p[i] # " "
        /\ Len(p) < MAX_PATH_LENGTH

TargetOf(buf) ==
    LET line == FirstLine(buf) \o CRLF
    IN  SubSeq(line, Len(GET_) + 1, Len(line) - Len(HTTP11))

\* out is p with every "%20" replaced by one space and every other byte kept
\* in place and order: the occurrences of "%20" in p cannot overlap, a kept
\* position i of p lands two places earlier for each occurrence before it
IsDecoded(p, out) ==
    LET starts == { i \in 1..Len(p) : MatchAt(p, PCT20, i) }
        kept   == { i \in 1..Len(p) : (i - 1) \notin starts /\ (i - 2) \notin starts }
        idx(i) == i - 2 * Cardinality({ j \in starts : j < i })
    IN  /\ Len(out) = Len(p) - 2 * Cardinality(starts)
        /\ \A i \in kept : out[idx(i)] = IF i \in starts THEN " " ELSE p[i]

\* C10: for every request line "GET <p> HTTP/1.1" with p shorter than the
\* path buffer, get_request_path returns p with every literal "%20" replaced
\* by one space and every other byte, other percent-escapes included,
\* unchanged and in order.
C10_DecodesSpaces ==
    calls = 1 /\ IsGetForm(buffer) => IsDecoded(TargetOf(buffer), request_path)

\* "/a%20b%41" came back as "/a b%41"
C10_Witness ==
    /\ calls = 1
    /\ IsGetForm(buffer)
    /\ TargetOf(buffer) = << "/", "a", "%", "2", "0", "b", "%", "4", "1" >>
    /\ request_path = << "/", "a", " ", "b", "%", "4", "1" >>

\* C11: when handle_client has returned to the accept loop every resource
\* it acquired is released: the file descriptor serve_file opened is closed,
\* both pipe ends serve_php created are closed in the parent, and a forked
\* child has been reaped by waitpid.
C11_ResourcesReleased ==
    Returned =>
        /\ file_fd \in { "none", "closed" }
        /\ \A i \in { 0, 1 } : pipe_fd[i] \in { "none", "closed" }
        /\ child.state \in { "none", "reaped" }

\* a script ran to a successful exit and the handler returned
C11_Witness ==
    /\ Returned
    /\ branch = "serve_php"
    /\ pipe_fd[0] = "closed"
    /\ pipe_fd[1] = "closed"
    /\ child.state = "reaped"
    /\ child.exec_ok
    /\ child.status = 0

\* C12: the parent of serve_php acts in this order: it closes the pipe's
\* write end before it writes anything; the first write to the client is
\* the 200 headers, made with the write end closed, and every later write is
\* a chunk; a byte is taken from the pipe only after the headers; the read
\* end is closed only at end of stream (pipe empty, no writer left); and the
\* child is reaped only after both ends are closed.
C12_ParentOrder ==
    [][ /\ (child.state # "none" /\ pipe_fd[1] = "open" /\ pipe_fd'[1] = "closed")
            => sent = << >> /\ pipe_fd[0] = "open"
        /\ (child.state # "none" /\ sent' # sent)
            => IF sent = << >>
               THEN sent' = << serve_php_headers >> /\ pipe_fd[1] = "closed"
               ELSE /\ sent[1] = serve_php_headers
                    /\ Len(sent') = Len(sent) + 1
                    /\ sent'[Len(sent')].w = "data"
                    /\ SubSeq(sent', 1, Len(sent)) = sent
        /\ (Len(pipe_buf') < Len(pipe_buf))
            => /\ sent # << >>
               /\ sent[1] = serve_php_headers
               /\ pipe_fd[1] = "closed"
               /\ pipe_fd[0] = "open"
               /\ child.state \notin { "none", "reaped" }
        /\ (child.state # "none" /\ pipe_fd[0] = "open" /\ pipe_fd'[0] = "closed")
            => /\ pipe_buf = << >>
               /\ ~WriterOpen
               /\ sent # << >>
               /\ child.state # "reaped"
        /\ (child.state # "reaped" /\ child'.state = "reaped")
            => pipe_fd[0] = "closed" /\ pipe_fd[1] = "closed"
      ]_vars

\* one byte of script output was relayed after the headers and the child
\* was reaped
C12_Witness ==
    /\ Returned
    /\ branch = "serve_php"
    /\ child.state = "reaped"
    /\ Len(childOut) = 1
    /\ sent = << serve_php_headers, DataWrite(childOut) >>

\* handle_client is in a call that does not return: none of its steps can
\* be taken
Blocked == pc # "accept" /\ ~ENABLED HandlerStep

\* the child has not closed its standard output, or has not exited
ChildUnfinished ==
    /\ branch = "serve_php"
    /\ \/ child.state = "forked"
       \/ child.state = "running"

C14_EmptyReadSilent ==
    [][ pc = "handle_client" /\ arrived /\ Len(incoming) = 0 =>
            /\ pc' = "accept"
            /\ sock' = "closed"
            /\ closes' = closes + 1
            /\ sent = << >>
            /\ branch = "none"
            /\ file_fd = "none"
            /\ pipe_fd = NoPipe
            /\ child = NoChild
            /\ UNCHANGED << sent, parseVars, fs, fileVars, phpVars >>
      ]_vars

\* a connection on which nothing was sent was closed without a response
C14_Witness ==
    /\ Returned
    /\ arrived
    /\ incoming = << >>
    /\ sock = "closed"
    /\ sent = << >>
    /\ branch = "none"

\* C15: serve_file never opens a name that no longer exists; when the open
\* fails, as it does for a file that vanished after the existence check,
\* the response is a 404 and nothing else, with no descriptor held; when
\* the open succeeds and fstat fails, the response is a 500 and nothing
\* else, and the descriptor is closed on that return.
C15_VanishedOrStatFailed ==
    [][ /\ (pc = "sf_open" /\ pc' # "sf_open" /\ Lookup(fs, target) = "none")
            => pc' = "close"
        /\ (pc = "sf_open" /\ pc' = "close")
            => /\ sent' = << send_not_found >>
               /\ file_fd' = "none"
        /\ (pc = "sf_fstat" /\ pc' = "close")
            => /\ sent' = << send_server_error >>
               /\ file_fd = "open"
               /\ file_fd' = "closed"
      ]_vars

\* the file existed when handle_client checked, was removed before the
\* open, and a 404 was the whole response
C15_Witness ==
    /\ Returned
    /\ branch = "serve_file"
    /\ fsChanges = 1
    /\ Lookup(fs, target) = "none"
    /\ file_fd = "none"
    /\ sent = << send_not_found >>

\* C16: the string get_request_path returns never contains "%20", whatever
\* the request buffer and whatever the static buffer held before the call.
C16_NoPercent20 ==
    calls = 1 => strstr(request_path, PCT20) = 0

\* "%%2020" came back as "% 20": the bytes around the decoded "%20" did not
\* form a new one
C16_Witness ==
    /\ calls = 1
    /\ buffer = GET_ \o << "%", "%", "2", "0", "2", "0" >> \o HTTP11
    /\ request_path = << "%", " ", "2", "0" >>

\* C17 (as claimed): the path get_request_path returns begins with '/',
\* for every request buffer.
C17_BeginsWithSlash ==
    calls = 1 => request_path # << >> /\ request_path[1] = "/"

\* C18 (as claimed): the path handle_client checks and serves is the
\* document root followed by the whole request path, and for a path ending
\* in '/' by the index file name after that; it is never cut short.
C18_ResolvedIsWhole ==
    JustDispatched /\ request_path # << >> =>
        LET whole == WWW_DIRECTORY \o request_path
        IN  /\ file_path = whole
            /\ branch \in { "serve_file", "serve_php" } =>
                  IF request_path[Len(request_path)] = "/"
                  THEN target \in { whole \o INDEX_HTML, whole \o INDEX_PHP }
                  ELSE target = whole

\* C20 (as claimed): when handle_client has tested the last character of
\* the request path, the index strlen(request_path) - 1 it read at was
\* within the string.
C20_LastCharInBounds ==
    pc \in { "sf_open", "php_pipe", "not_found" } =>
        LET i == Len(request_path) - 1
        IN  0 <= i /\ i < Len(request_path)

\* C19: the path get_request_path returns for a request is the path it
\* returns for that request on a zeroed buffer, whatever the calls before
\* left in the static buffer: nothing of an earlier path is part of a later
\* result.
C19_PureOfBuffer ==
    calls >= 1 => request_path = PathOf(buffer)

\* "/x.txt" was returned by a second call although the static buffer still
\* holds, behind the terminator, bytes of a longer path of the call before
C19_Witness ==
    /\ calls = 2
    /\ buffer = GET_ \o X_TXT \o HTTP11
    /\ request_path = X_TXT
    /\ path[Len(X_TXT) + 1] = NUL
    /\ path[Len(X_TXT) + 2] = "a"

=============================================================================
